---- MODULE Spec2Model ----
(***************************************************************************)
(* Model of the Geiger pulse aggregator (src/geiger.py, GeigerState; the   *)
(* same class is repeated in src/app.py) as it is driven by producer       *)
(* threads (GeigerReader._emit -> on_pulse), the one-second ticker         *)
(* (second_loop -> tick_second), the reset handler (api_reset -> reset)    *)
(* and a snapshot caller (api_snapshot, second_loop -> snapshot).          *)
(*                                                                         *)
(* Every method body is split at its statements, so that the lock is what  *)
(* makes the bodies atomic, not the model.  A reading of time.time() is    *)
(* any value of Times: the wall clock may move either way between two      *)
(* readings.  Floating-point quotients are kept as exact fractions         *)
(* <<numerator, denominator>>.                                             *)
(*                                                                         *)
(* Further specifications over the same variables follow the rest of the   *)
(* program (src/main.py, src/app.py): SpecHub and SpecHubFair the          *)
(* broadcast hub, SpecTick, SpecTickFair and SpecSubscribe the one-second  *)
(* Ticker among subscribers and resets, SpecReader the pulse source and    *)
(* its start and stop, SpecLocks the two locks.                            *)
(***************************************************************************)
EXTENDS Integers, Sequences, FiniteSets, TLC

\* ---------------------------------------------------------------- bounds
MaxCap == 2
MaxPulses == 3
MaxTicks == 2
MaxTime == 1
MaxRounds == 1

\* ------------------------------------------------------- program values
None == -1
Free == "free"

Producers == {"p1", "p2"}
Ticker == "ticker"
Resetter == "api_reset"
Snapshotter == "api_snapshot"
Threads == Producers \cup {Ticker, Resetter, Snapshotter}

Times == 0..MaxTime
Caps == 0..MaxCap

\* The websockets that may connect, in the order they do, and the states of MAIN_LOOP: not set,
\* set to the running loop, set to a loop that has been closed.
SocketOrder == <<"w1", "w2">>
Sockets == {SocketOrder[i] : i \in 1..Len(SocketOrder)}
Variants == {"main", "app"}

\* second_loop awaits its broadcast() itself: that coroutine has a slot of
\* its own, after the MaxRounds slots of the submitted ones.
TickSlot == MaxRounds + 1
AllSlots == 1..TickSlot

\* The code that takes a lock, by the function it starts in: three run on
\* threads, three are coroutines of the one event loop.
LockThreads == {"on_pulse", "api_reset", "api_snapshot"}
Coroutines == {"second_loop", "ws_endpoint", "broadcast"}
Participants == LockThreads \cup Coroutines
NoCoroutine == "none"
NotRunning == [at |-> 0, awaiting |-> FALSE]
NoLoop == "None"
Running == "running"
Closed == "closed"

VARIABLES
  max_deltas, max_series,        \* cfg.max_deltas, cfg.max_series
  lock,                          \* GeigerState.lock: Free or the holder
  t0, total, last_ts, deltas, per_second, current_second_count,
  pc,                            \* position of every thread
  ts,                            \* on_pulse's argument, per producer
  reg,                           \* value loaded by "self.total += 1"
  rnow,                          \* reset()'s reading of time.time()
  loc,                           \* snapshot()'s local variables
  ret,                           \* the dict snapshot() builds
  held,                          \* the lists of the dict its caller holds
  committed,                     \* history: the fields at the last release
  hist                           \* history: counters since the last reset

VARIABLES
  MAIN_LOOP,                     \* main.MAIN_LOOP, by the state of the loop
  clients,                       \* WSManager.clients
  wpc,                           \* position of ws_endpoint, per websocket
  alive,                         \* the peer of the websocket is there
  inbox,                         \* the messages each peer has received
  first,                         \* the snapshot ws_endpoint is sending
  rounds,                        \* the broadcast() coroutines submitted
  raised,                        \* the callers an exception has reached
  failed                         \* history: pruned by a finished broadcast

VARIABLES
  variant,                       \* the program: main.py or app.py
  mock,                          \* cfg.mock (main.py), MOCK (app.py)
  started,                       \* GeigerReader._started
  stop_set,                      \* GeigerReader._stop is set
  mpc,                           \* position of the mock thread
  detect,                        \* the edge callback is registered
  hw,                            \* history: the acquisition of the GPIO
  rpc,                           \* position of the caller inside stop()
  released                       \* history: a release of this stop() worked

VARIABLES
  stale,                         \* history: resets since second_loop's snapshot
  rlock,                         \* WSManager.lock: Free or the holder
  lk,                            \* position of every participant in its code
  cur                            \* the coroutine the event loop is running

cfgv == <<max_deltas, max_series>>
lockv == <<rlock, lk, cur>>
readerv == <<variant, mock, started, stop_set, mpc, detect, hw, rpc,
             released>>
agg == <<t0, total, last_ts, deltas, per_second, current_second_count>>
hubv == <<MAIN_LOOP, clients, wpc, alive, inbox, first, rounds, raised,
          failed>>
vars == <<cfgv, lock, agg, pc, ts, reg, rnow, loc, ret, held, committed,
          hist, hubv, readerv, stale, lockv>>

\* ------------------------------------------------------------- helpers
Min(a, b) == IF a <= b THEN a ELSE b
Max(a, b) == IF a >= b THEN a ELSE b

\* Python's s[-n:] for n >= 0.  -0 is 0, so s[-0:] is s[0:], the whole list.
SliceLast(s, n) ==
  IF n = 0 \/ n >= Len(s) THEN s ELSE SubSeq(s, Len(s) - n + 1, Len(s))

\* "if self.last_ts is not None" (on_pulse)
IsNotNoneAlways(x) == TRUE        \* (mutant) on_pulse without the test
IsNotNone(x) == x /= None

\* "if self.last_ts" (snapshot): None and 0.0 are both falsy
Truthy(x) == x /= None /\ x /= 0

\* An optional number: Python's None, or a float.
Absent == [isNone |-> TRUE, val |-> 0]
Some(x) == [isNone |-> FALSE, val |-> x]

\* The running-mean loop of snapshot(): s is the running sum, i the
\* 1-based index, acc the list built so far; s / i is kept as <<s, i>>.
\* (mutant) the loop with "s = c" for "s += c": no running sum
RECURSIVE RunningMeanLoopNoSum(_, _, _, _)
RunningMeanLoopNoSum(series, i, s, acc) ==
  IF i > Len(series) THEN acc
  ELSE RunningMeanLoopNoSum(series, i + 1, series[i],
                            Append(acc, <<series[i], i>>))

RECURSIVE RunningMeanLoop(_, _, _, _)
RunningMeanLoop(series, i, s, acc) ==
  IF i > Len(series) THEN acc
  ELSE RunningMeanLoop(series, i + 1, s + series[i],
                       Append(acc, <<s + series[i], i>>))

\* list(x): a new list object with the same items; shared says whether the
\* result is the very list object the aggregator goes on mutating.
CopyListAlias(l) == [val |-> l, shared |-> TRUE]   \* (mutant) no list(...)
CopyList(l) == [val |-> l, shared |-> FALSE]

\* What the caller of snapshot() holds of a returned dict: its two list
\* objects (the other items are immutable numbers).  Of each list, whether
\* it is the object self.deltas / self.per_second is bound to, and whether
\* its items are no longer the ones it was returned with.
NoHeld == [valid |-> FALSE, deltas |-> FALSE, per_second |-> FALSE,
           changed |-> FALSE]
HeldOf(r) == [valid |-> TRUE, deltas |-> r.deltas.shared,
              per_second |-> r.per_second.shared, changed |-> FALSE]

\* The fields as one record (what a lock holder sees on entry).
Fields == [t0 |-> t0, total |-> total, last_ts |-> last_ts,
           deltas |-> deltas, per_second |-> per_second,
           current_second_count |-> current_second_count]

ClearedFields(now) == [t0 |-> now, total |-> 0, last_ts |-> None,
                       deltas |-> <<>>, per_second |-> <<>>,
                       current_second_count |-> 0]

\* elapsed = max(0.0, now - self.t0)
ElapsedSigned(now, start) == now - start          \* (mutant) without max
Elapsed(now, start) == Max(0, now - start)

\* rate = self.total / elapsed if elapsed > 0, else 0.0; the quotient n / d
\* is kept as <<n, d>>
Rate(n, elapsed) == IF elapsed > 0 THEN <<n, elapsed>> ELSE <<0, 1>>

\* err = math.sqrt(self.total) / elapsed if self.total > 0 else 0.0, inside
\* "if elapsed > 0", else 0.0; sqrt(n) / d is kept as <<n, d>>
RateErr(n, elapsed) ==
  IF elapsed > 0
  THEN (IF n > 0 THEN <<n, elapsed>> ELSE <<0, 1>>)
  ELSE <<0, 1>>

NoLoc == [now |-> None, elapsed |-> None, rate |-> <<0, 1>>,
          err |-> <<0, 1>>, running_mean |-> <<>>, last_age |-> Absent]
NoRet == [valid |-> FALSE]

\* The part of a snapshot message the hub is followed by, and its absence.
NoSnap == [total |-> None, per_second |-> <<>>]

\* A message; id is the broadcast it belongs to, 0 for ws_endpoint's own.
\* inbox[ws][id] is the number of times ws has received message id.
Msg(type, id, snap, t) == [type |-> type, id |-> id, snap |-> snap, ts |-> t]

\* No broadcast() coroutine in a slot.
FreeRound ==
  [msg |-> Msg("none", 0, NoSnap, None), by |-> "nobody", phase |-> "free",
   start |-> {}, todo |-> {}, dead |-> {}]

\* stale: snap = a reset() has run since second_loop took the snapshot it is
\* broadcasting, acks = the submitted broadcasts that acknowledge such a
\* reset, seen = the websockets one of those has been delivered to
NoStale == [snap |-> FALSE, acks |-> {}, seen |-> {}]

\* hist: done = on_pulse calls completed, sinceTick = of them since the last
\* tick_second, lastBy = the producer of the last one, ticks = tick_second
\* calls completed, evicted = a closed bin was dropped, mono = every pulse
\* so far came with ts >= last_ts, scen = progress through "pulse, tick,
\* pulse, tick, pulse" (None: left it), resets = consecutive completed
\* resets (capped at 2), accepted = every delta appended to deltas, in
\* arrival order, closed = every bin appended to per_second, in order
NoHist == [done |-> 0, sinceTick |-> 0, lastBy |-> "nobody", ticks |-> 0,
           evicted |-> FALSE, mono |-> TRUE, scen |-> 0, resets |-> 0,
           accepted |-> <<>>, closed |-> <<>>]

\* "with self.lock:" blocks until the threading.Lock is free.  One operator
\* per method, for the "with" statement of each.
OnPulseLockMissing(p) == TRUE     \* (mutant) on_pulse without the lock
OnPulseLock(p) == lock = Free
TickLockMissing == TRUE           \* (mutant) tick_second without the lock
TickLock == lock = Free
ResetLockFresh == TRUE            \* (mutant) reset under a lock of its own
ResetLock == lock = Free
SnapshotLock == lock = Free

\* list.append mutates the list object: every holder of it sees the item.
AppendShared(h, field) ==
  IF h.valid /\ h[field] THEN [h EXCEPT !.changed = TRUE] ELSE h

\* Binding the attribute to a new list leaves old holders with the old one.
Unshare(h, field) ==
  IF h.valid /\ h[field] THEN [h EXCEPT ![field] = FALSE] ELSE h

Goto(t, label) == pc' = [pc EXCEPT ![t] = label]

\* ------------------------------------------------------------- on_pulse
\* on_pulse(ts): "with self.lock:"
OnPulseAcquire(p) ==
  /\ pc[p] = "idle"
  /\ total < MaxPulses
  /\ OnPulseLock(p)
  /\ lock' = p
  /\ \E t \in Times : ts' = [ts EXCEPT ![p] = t]
  /\ Goto(p, "p_load")
  /\ UNCHANGED <<lockv, stale, readerv, hubv, cfgv, agg, reg, rnow, loc, ret, held, committed, hist>>

\* self.total += 1, the load
OnPulseLoadTotal(p) ==
  /\ pc[p] = "p_load"
  /\ reg' = [reg EXCEPT ![p] = total]
  /\ Goto(p, "p_store")
  /\ UNCHANGED <<lockv, stale, readerv, hubv, cfgv, lock, agg, ts, rnow, loc, ret, held, committed, hist>>

\* self.total += 1, the store
OnPulseStoreTotal(p) ==
  /\ pc[p] = "p_store"
  /\ total' = reg[p] + 1
  /\ reg' = [reg EXCEPT ![p] = 0]
  /\ Goto(p, "p_delta")
  /\ UNCHANGED <<lockv, stale, readerv, hubv, cfgv, lock, t0, last_ts, deltas, per_second,
                 current_second_count, ts, rnow, loc, ret, held, committed,
                 hist>>

\* (mutant) without "if dt >= 0": every delta is appended
DeltasAfterPulseUnsigned(t) ==
  IF IsNotNone(last_ts)
  THEN LET appended == Append(deltas, t - last_ts)
       IN  IF Len(appended) > max_deltas
           THEN SliceLast(appended, max_deltas)
           ELSE appended
  ELSE deltas

\* The deltas after "if self.last_ts is not None: ... self.deltas[-max:]".
DeltasAfterPulse(t) ==
  IF IsNotNone(last_ts) /\ t - last_ts >= 0
  THEN LET appended == Append(deltas, t - last_ts)
       IN  IF Len(appended) > max_deltas
           THEN SliceLast(appended, max_deltas)
           ELSE appended
  ELSE deltas

\* if self.last_ts is not None: dt = ...; append; trim
OnPulseDelta(p) ==
  /\ pc[p] = "p_delta"
  /\ deltas' = DeltasAfterPulse(ts[p])
  /\ held' = IF IsNotNone(last_ts) /\ ts[p] - last_ts >= 0
             THEN LET h == AppendShared(held, "deltas")
                  IN  IF Len(deltas) + 1 > max_deltas
                      THEN Unshare(h, "deltas") ELSE h
             ELSE held
  /\ hist' = [hist EXCEPT
                !.mono = @ /\ (last_ts = None \/ ts[p] >= last_ts),
                !.accepted = IF IsNotNone(last_ts) /\ ts[p] - last_ts >= 0
                             THEN Append(@, ts[p] - last_ts) ELSE @]
  /\ Goto(p, "p_last")
  /\ UNCHANGED <<lockv, stale, readerv, hubv, cfgv, lock, t0, total, last_ts, per_second,
                 current_second_count, ts, reg, rnow, loc, ret, committed>>

\* self.last_ts = ts
OnPulseLast(p) ==
  /\ pc[p] = "p_last"
  /\ last_ts' = ts[p]
  /\ Goto(p, "p_count")
  /\ UNCHANGED <<lockv, stale, readerv, hubv, cfgv, lock, t0, total, deltas, per_second,
                 current_second_count, ts, reg, rnow, loc, ret, held, committed,
                 hist>>

\* self._current_second_count += 1
OnPulseCount(p) ==
  /\ pc[p] = "p_count"
  /\ current_second_count' = current_second_count + 1
  /\ Goto(p, "p_rel")
  /\ UNCHANGED <<lockv, stale, readerv, hubv, cfgv, lock, t0, total, last_ts, deltas, per_second, ts,
                 reg, rnow, loc, ret, held, committed, hist>>

\* leaving "with self.lock:"; on_pulse returns
OnPulseRelease(p) ==
  /\ pc[p] = "p_rel"
  /\ lock' = Free
  /\ ts' = [ts EXCEPT ![p] = None]
  /\ committed' = Fields
  /\ hist' = [hist EXCEPT
                !.done = @ + 1, !.sinceTick = @ + 1, !.lastBy = p,
                !.resets = 0,
                !.scen = IF @ \in {0, 2, 4} THEN @ + 1 ELSE None]
  /\ Goto(p, "idle")
  /\ UNCHANGED <<lockv, stale, readerv, hubv, cfgv, agg, reg, rnow, loc, ret, held>>

\* ---------------------------------------------------------- tick_second
\* tick_second(): "with self.lock:"
TickAcquire ==
  /\ pc[Ticker] = "idle"
  /\ hist.ticks < MaxTicks
  /\ TickLock
  /\ lock' = Ticker
  /\ Goto(Ticker, "t_append")
  /\ UNCHANGED <<lockv, stale, readerv, hubv, cfgv, agg, ts, reg, rnow, loc, ret, held, committed, hist>>

\* self.per_second.append(self._current_second_count)
TickAppend ==
  /\ pc[Ticker] = "t_append"
  /\ per_second' = Append(per_second, current_second_count)
  /\ held' = AppendShared(held, "per_second")
  /\ hist' = [hist EXCEPT !.closed = Append(@, current_second_count)]
  /\ Goto(Ticker, "t_zero")
  /\ UNCHANGED <<lockv, stale, readerv, hubv, cfgv, lock, t0, total, last_ts, deltas, current_second_count,
                 ts, reg, rnow, loc, ret, committed>>

\* self._current_second_count = 0
TickZero ==
  /\ pc[Ticker] = "t_zero"
  /\ current_second_count' = 0
  /\ Goto(Ticker, "t_trim")
  /\ UNCHANGED <<lockv, stale, readerv, hubv, cfgv, lock, t0, total, last_ts, deltas, per_second, ts,
                 reg, rnow, loc, ret, held, committed, hist>>

\* The per_second after "if len(...) > max_series: ... [-max_series:]".
SeriesAfterTrim ==
  IF Len(per_second) > max_series
  THEN SliceLast(per_second, max_series)
  ELSE per_second

\* if len(self.per_second) > self.cfg.max_series: trim
TickTrim ==
  /\ pc[Ticker] = "t_trim"
  /\ per_second' = SeriesAfterTrim
  /\ held' = IF Len(per_second) > max_series
             THEN Unshare(held, "per_second") ELSE held
  /\ hist' = [hist EXCEPT
                !.evicted = @ \/ Len(SeriesAfterTrim) < Len(per_second)]
  /\ Goto(Ticker, "t_rel")
  /\ UNCHANGED <<lockv, stale, readerv, hubv, cfgv, lock, t0, total, last_ts, deltas, current_second_count,
                 ts, reg, rnow, loc, ret, committed>>

\* leaving "with self.lock:"; tick_second returns
TickRelease ==
  /\ pc[Ticker] = "t_rel"
  /\ lock' = Free
  /\ committed' = Fields
  /\ hist' = [hist EXCEPT
                !.ticks = @ + 1, !.sinceTick = 0, !.resets = 0,
                !.scen = IF @ \in {1, 3} THEN @ + 1 ELSE None]
  /\ Goto(Ticker, "idle")
  /\ UNCHANGED <<lockv, stale, readerv, hubv, cfgv, agg, ts, reg, rnow, loc, ret, held>>

\* ---------------------------------------------------------------- reset
\* reset(): "with self.lock:"
ResetAcquire ==
  /\ pc[Resetter] = "idle"
  /\ ResetLock
  /\ lock' = Resetter
  /\ Goto(Resetter, "r_t0")
  /\ UNCHANGED <<lockv, stale, readerv, hubv, cfgv, agg, ts, reg, rnow, loc, ret, held, committed, hist>>

\* self.t0 = time.time()
ResetT0 ==
  /\ pc[Resetter] = "r_t0"
  /\ \E now \in Times : rnow' = now /\ t0' = now
  /\ Goto(Resetter, "r_total")
  /\ UNCHANGED <<lockv, stale, readerv, hubv, cfgv, lock, total, last_ts, deltas, per_second,
                 current_second_count, ts, reg, loc, ret, held, committed,
                 hist>>

\* self.total = 0
ResetTotal ==
  /\ pc[Resetter] = "r_total"
  /\ total' = 0
  /\ Goto(Resetter, "r_last")
  /\ UNCHANGED <<lockv, stale, readerv, hubv, cfgv, lock, t0, last_ts, deltas, per_second,
                 current_second_count, ts, reg, rnow, loc, ret, held, committed,
                 hist>>

\* self.last_ts = None
ResetLast ==
  /\ pc[Resetter] = "r_last"
  /\ last_ts' = None
  /\ Goto(Resetter, "r_deltas")
  /\ UNCHANGED <<lockv, stale, readerv, hubv, cfgv, lock, t0, total, deltas, per_second,
                 current_second_count, ts, reg, rnow, loc, ret, held, committed,
                 hist>>

\* self.deltas = []
ResetDeltas ==
  /\ pc[Resetter] = "r_deltas"
  /\ deltas' = <<>>
  /\ held' = Unshare(held, "deltas")
  /\ Goto(Resetter, "r_per")
  /\ UNCHANGED <<lockv, stale, readerv, hubv, cfgv, lock, t0, total, last_ts, per_second,
                 current_second_count, ts, reg, rnow, loc, ret, committed,
                 hist>>

\* self.per_second = []
ResetPerSecond ==
  /\ pc[Resetter] = "r_per"
  /\ per_second' = <<>>
  /\ held' = Unshare(held, "per_second")
  /\ Goto(Resetter, "r_count")
  /\ UNCHANGED <<lockv, stale, readerv, hubv, cfgv, lock, t0, total, last_ts, deltas, current_second_count,
                 ts, reg, rnow, loc, ret, committed, hist>>

\* (mutant) reset without "self._current_second_count = 0"
ResetCountForgotten ==
  /\ pc[Resetter] = "r_count"
  /\ Goto(Resetter, "r_rel")
  /\ UNCHANGED <<lockv, stale, readerv, hubv, cfgv, lock, agg, ts, reg, rnow, loc, ret, held, committed,
                 hist>>

\* self._current_second_count = 0
ResetCount ==
  /\ pc[Resetter] = "r_count"
  /\ current_second_count' = 0
  /\ Goto(Resetter, "r_rel")
  /\ UNCHANGED <<lockv, stale, readerv, hubv, cfgv, lock, t0, total, last_ts, deltas, per_second, ts,
                 reg, rnow, loc, ret, held, committed, hist>>

\* leaving "with self.lock:"; reset returns
ResetRelease ==
  /\ pc[Resetter] = "r_rel"
  /\ lock' = Free
  /\ rnow' = None
  /\ committed' = Fields
  /\ hist' = [NoHist EXCEPT !.resets = Min(hist.resets + 1, 2)]
  /\ Goto(Resetter, "idle")
  /\ UNCHANGED <<lockv, stale, readerv, hubv, cfgv, agg, ts, reg, loc, ret, held>>

\* ------------------------------------------------------------- snapshot
\* snapshot(): "with self.lock:" and "now = time.time()"
SnapshotAcquire ==
  /\ pc[Snapshotter] = "idle"
  /\ SnapshotLock
  /\ lock' = Snapshotter
  /\ \E now \in Times : loc' = [NoLoc EXCEPT !.now = now]
  /\ Goto(Snapshotter, "s_rate")
  /\ UNCHANGED <<lockv, stale, readerv, hubv, cfgv, agg, ts, reg, rnow, ret, held, committed, hist>>

\* elapsed = max(0.0, now - self.t0); rate = self.total / elapsed or 0.0
SnapshotRate ==
  /\ pc[Snapshotter] = "s_rate"
  /\ LET elapsed == Elapsed(loc.now, t0)
     IN  loc' = [loc EXCEPT
                   !.elapsed = elapsed,
                   !.rate = Rate(total, elapsed),
                   !.err = RateErr(total, elapsed)]
  /\ Goto(Snapshotter, "s_mean")
  /\ UNCHANGED <<lockv, stale, readerv, hubv, cfgv, lock, agg, ts, reg, rnow, ret, held, committed, hist>>

\* running_mean = []; s = 0; for i, c in enumerate(self.per_second, start=1)
SnapshotMean ==
  /\ pc[Snapshotter] = "s_mean"
  /\ loc' = [loc EXCEPT
               !.running_mean = RunningMeanLoop(per_second, 1, 0, <<>>)]
  /\ Goto(Snapshotter, "s_age")
  /\ UNCHANGED <<lockv, stale, readerv, hubv, cfgv, lock, agg, ts, reg, rnow, ret, held, committed, hist>>

\* last_age = (now - self.last_ts) if self.last_ts else None
LastAge(now) == IF Truthy(last_ts) THEN Some(now - last_ts) ELSE Absent

SnapshotAge ==
  /\ pc[Snapshotter] = "s_age"
  /\ loc' = [loc EXCEPT !.last_age = LastAge(loc.now)]
  /\ Goto(Snapshotter, "s_ret")
  /\ UNCHANGED <<lockv, stale, readerv, hubv, cfgv, lock, agg, ts, reg, rnow, ret, held, committed, hist>>

\* return {...}: the dict is built (still inside "with self.lock:")
SnapshotBuild ==
  /\ pc[Snapshotter] = "s_ret"
  /\ ret' = [valid |-> TRUE,
             total |-> total,
             elapsed |-> loc.elapsed,
             last_age |-> loc.last_age,
             per_second |-> CopyList(per_second),
             running_mean |-> loc.running_mean,
             rate_bq |-> loc.rate,
             rate_err |-> loc.err,
             deltas |-> CopyList(deltas)]
  /\ Goto(Snapshotter, "s_rel")
  /\ UNCHANGED <<lockv, stale, readerv, hubv, cfgv, lock, agg, ts, reg, rnow, loc, held, committed,
                 hist>>

\* leaving "with self.lock:"; snapshot returns the dict to its caller, who
\* holds on to it while the other threads run (second_loop, ws_endpoint:
\* across the await of the send)
SnapshotRelease ==
  /\ pc[Snapshotter] = "s_rel"
  /\ lock' = Free
  /\ loc' = NoLoc
  /\ ret' = NoRet
  /\ held' = HeldOf(ret)
  /\ Goto(Snapshotter, "idle")
  /\ UNCHANGED <<lockv, stale, readerv, hubv, cfgv, agg, ts, reg, rnow, committed, hist>>

\* ---------------------------------------------------------------- Init
\* GeigerState.__init__: the lock, then reset() at some clock reading.
\* The two buffers share no code: their capacities are varied together.
Constructed ==
  /\ max_deltas \in Caps
  /\ max_series = max_deltas
  /\ lock = Free
  /\ t0 \in Times
  /\ total = 0
  /\ last_ts = None
  /\ deltas = <<>>
  /\ per_second = <<>>
  /\ current_second_count = 0
  /\ pc = [t \in Threads |-> "idle"]
  /\ ts = [p \in Producers |-> None]
  /\ reg = [p \in Producers |-> 0]
  /\ rnow = None
  /\ loc = NoLoc
  /\ ret = NoRet
  /\ held = NoHeld
  /\ committed = ClearedFields(t0)
  /\ hist = NoHist
  /\ MAIN_LOOP = NoLoop
  /\ clients = {}
  /\ wpc = [w \in Sockets |-> "idle"]
  /\ alive = [w \in Sockets |-> TRUE]
  /\ inbox = [w \in Sockets |-> [i \in 0..TickSlot |-> 0]]
  /\ first = [w \in Sockets |-> NoSnap]
  /\ rounds = [r \in AllSlots |-> FreeRound]
  /\ raised = {}
  /\ failed = {}
  /\ started = FALSE
  /\ stop_set = FALSE
  /\ mpc = "none"
  /\ detect = FALSE
  /\ hw = "untried"
  /\ rpc = "idle"
  /\ released = FALSE
  /\ stale = NoStale
  /\ rlock = Free
  /\ lk = [x \in Participants |-> NotRunning]
  /\ cur = NoCoroutine

\* main.py with the synthetic source
Init == Constructed /\ variant = "main" /\ mock = TRUE

OnPulse(p) ==
  \/ OnPulseAcquire(p) \/ OnPulseLoadTotal(p) \/ OnPulseStoreTotal(p)
  \/ OnPulseDelta(p) \/ OnPulseLast(p) \/ OnPulseCount(p)
  \/ OnPulseRelease(p)

Next ==
  \/ \E p \in Producers : OnPulse(p)
  \/ TickAcquire \/ TickAppend \/ TickZero \/ TickTrim \/ TickRelease
  \/ ResetAcquire \/ ResetT0 \/ ResetTotal \/ ResetLast \/ ResetDeltas
  \/ ResetPerSecond \/ ResetCount \/ ResetRelease
  \/ SnapshotAcquire \/ SnapshotRate \/ SnapshotMean \/ SnapshotAge
  \/ SnapshotBuild \/ SnapshotRelease

Spec == Init /\ [][Next]_vars

\* ====================================================================
\* The hub: main.py's WSManager, schedule_broadcast and handlers
\* ====================================================================
\* Coroutines run on one event loop: the code between two awaits that
\* suspend is one step.  "async with self.lock" never suspends, because no
\* coroutine awaits inside it and so the asyncio.Lock is free at every
\* suspension.  The GeigerState methods are taken whole, as their lock
\* makes them (C4, C5).  At most MaxRounds broadcast() coroutines are
\* pending at a time, and at most MaxRounds pulses are counted between two
\* resets.
HubProducer == "p1"
HubNow == MaxTime                  \* the reading of time.time() in the hub
Slots == 1..MaxRounds
Pending == {r \in Slots : rounds[r].phase /= "free"}
Submitting == {t \in {HubProducer, Resetter} : pc[t] \in {"h_sched", "h_ack"}}
Reserved == Cardinality(Pending) + Cardinality(Submitting)
FreeSlot ==
  CHOOSE r \in Slots :
    /\ rounds[r].phase = "free"
    /\ \A q \in Slots : q < r => rounds[q].phase /= "free"

\* state.on_pulse(t) and state.reset(), taken whole
HubOnPulseNotYet(t) ==             \* (mutant) on_pulse that folds nothing
  UNCHANGED <<failed, agg>>
HubOnPulse(t) ==
  /\ total' = total + 1
  /\ deltas' = DeltasAfterPulse(t)
  /\ last_ts' = t
  /\ current_second_count' = current_second_count + 1
  /\ UNCHANGED <<failed, t0, per_second>>

\* (mutant) a tick_second that closes no bin
HubTickSecondNotYet ==
  UNCHANGED agg
HubTickSecond ==
  /\ LET appended == Append(per_second, current_second_count)
     IN  per_second' = IF Len(appended) > max_series
                       THEN SliceLast(appended, max_series)
                       ELSE appended
  /\ current_second_count' = 0
  /\ UNCHANGED <<t0, total, last_ts, deltas>>

HubReset(now) ==
  /\ t0' = now
  /\ total' = 0
  /\ last_ts' = None
  /\ deltas' = <<>>
  /\ per_second' = <<>>
  /\ current_second_count' = 0

\* {"type": "snapshot", **state.snapshot()}: the keys kept here
HubSnapshot == [total |-> total, per_second |-> per_second]

\* what ws_endpoint begins to send when connect() has returned
InitialSnapshotNotYet == NoSnap    \* (mutant) the send begins later
InitialSnapshot == HubSnapshot

\* second_loop is between state.tick_second() and its await: the event loop
\* runs no other coroutine
LoopBusy == pc[Ticker] = "h_ticked"

\* manager.broadcast(msg) as a coroutine not yet run
NewRound(msg, by) ==
  [msg |-> msg, by |-> by, phase |-> "queued",
   start |-> {}, todo |-> {}, dead |-> {}]

\* schedule_broadcast(msg): "if MAIN_LOOP is None: return", then
\* run_coroutine_threadsafe inside try/except; it raises on a closed loop
ScheduleQueuesNothing(loop) == FALSE              \* (mutant) never submits
ScheduleQueues(loop) == loop = Running
ScheduleRaisesUnguarded(loop) == loop /= Running  \* (mutant) no guard, no try
ScheduleRaises(loop) == FALSE

\* self.clients.discard(ws)
DiscardRaisesAsRemove(cl, ws) == ws \notin cl     \* (mutant) clients.remove
DiscardRaises(cl, ws) == FALSE
Discard(cl, ws) == cl \ {ws}

\* "async with self.lock: clients = list(self.clients)", "dead = []"
BeginRound(r) ==
  [r EXCEPT !.start = clients, !.todo = clients,
            !.phase = IF clients = {} THEN "done" ELSE "sending"]

\* ws.send_json(msg) succeeds on an open websocket whose peer is there
Deliverable(ws) == alive[ws] /\ wpc[ws] /= "closed"

\* "except Exception: dead.append(ws)": the loop goes on with the rest
RestAfterFailureAbort(rest) == {}                 \* (mutant) no try/except
RestAfterFailure(rest) == rest

\* "if dead: async with self.lock: for ws in dead: clients.discard(ws)"
PrunedNothing(cl, dead) == cl                     \* (mutant) no pruning
Pruned(cl, dead) == cl \ dead

\* whom ws_endpoint sends its snapshot to
InitialRecipientsAll(ws) == clients \cup {ws}     \* (mutant) a broadcast
InitialRecipients(ws) == {ws}

\* the websockets that connect before ws
Earlier(ws) ==
  {SocketOrder[j] : j \in {i \in 1..Len(SocketOrder) :
                             \E k \in (i + 1)..Len(SocketOrder) :
                                SocketOrder[k] = ws}}

\* ----------------------------------------------------- startup, shutdown
\* reader.start(): "if self._started: return"; the mock thread, or the GPIO
\* set up and the edge callback registered; acquired says whether the GPIO
\* calls outside a try, and add_event_detect, return; if not, an exception
\* leaves start()
ReaderStart(acquired) ==
  IF started
  THEN UNCHANGED <<started, mpc, detect, hw, raised>>
  ELSE /\ started' = TRUE
       /\ IF mock
          THEN /\ mpc' = "head"
               /\ UNCHANGED <<detect, hw, raised>>
          ELSE /\ detect' = acquired
               /\ hw' = IF acquired THEN "acquired" ELSE "failed"
               /\ raised' = IF acquired THEN raised
                            ELSE raised \cup {"startup"}
               /\ UNCHANGED mpc

\* on_startup: MAIN_LOOP = asyncio.get_running_loop(); set_callback;
\* reader.start()
OnStartup ==
  /\ variant = "main"
  /\ MAIN_LOOP = NoLoop
  /\ rpc = "idle"
  /\ MAIN_LOOP' = Running
  /\ \E acquired \in BOOLEAN : ReaderStart(acquired)
  /\ UNCHANGED <<lockv, stale, cfgv, lock, agg, pc, ts, reg, rnow, loc, ret, held,
                 committed, hist, clients, wpc, alive, inbox, first, rounds,
                 failed, variant, mock, stop_set, rpc, released>>

\* the server closes the loop (MAIN_LOOP.is_closed()): no coroutine runs
\* again, and schedule_broadcast submits nothing
LoopClose ==
  /\ MAIN_LOOP = Running
  /\ MAIN_LOOP' = Closed
  /\ UNCHANGED <<lockv, stale, readerv, failed, cfgv, lock, agg, pc, ts, reg, rnow, loc, ret, held,
                 committed, hist, clients, wpc, alive, inbox, first, rounds,
                 raised>>

\* ---------------------------------------------------------- main.on_pulse
\* on_pulse(ts): state.on_pulse(ts)
HubPulseFold(p) ==
  /\ pc[p] = "idle"
  /\ Reserved < MaxRounds
  /\ total < MaxRounds
  /\ ts' = [ts EXCEPT ![p] = HubNow]
  /\ HubOnPulse(HubNow)
  /\ Goto(p, "h_sched")
  /\ UNCHANGED <<lockv, stale, readerv, cfgv, lock, reg, rnow, loc, ret, held, committed, hist,
                 hubv>>

\* on_pulse(ts): schedule_broadcast({"type": "pulse", "ts": ts})
HubPulseSchedule(p) ==
  /\ pc[p] = "h_sched"
  /\ rounds' = IF ScheduleQueues(MAIN_LOOP)
               THEN [rounds EXCEPT
                       ![FreeSlot] = NewRound(Msg("pulse", FreeSlot, NoSnap,
                                                  ts[p]), p)]
               ELSE rounds
  /\ raised' = IF ScheduleRaises(MAIN_LOOP) THEN raised \cup {p} ELSE raised
  /\ ts' = [ts EXCEPT ![p] = None]
  /\ Goto(p, "idle")
  /\ UNCHANGED <<lockv, stale, readerv, failed, cfgv, lock, agg, reg, rnow, loc, ret, held, committed, hist,
                 MAIN_LOOP, clients, wpc, alive, inbox, first>>

\* ------------------------------------------------------------- api_reset
\* api_reset(), served while the loop runs: state.reset()
HubResetClear ==
  /\ pc[Resetter] = "idle"
  /\ MAIN_LOOP = Running
  /\ Reserved < MaxRounds
  /\ HubReset(HubNow)
  /\ stale' = IF pc[Ticker] = "h_round"
              THEN [stale EXCEPT !.snap = TRUE] ELSE stale
  /\ Goto(Resetter, "h_ack")
  /\ UNCHANGED <<lockv, readerv, cfgv, lock, ts, reg, rnow, loc, ret, held, committed, hist,
                 hubv>>

\* api_reset(): schedule_broadcast({"type": "reset_ack"})
HubResetSchedule ==
  /\ pc[Resetter] = "h_ack"
  /\ rounds' = IF ScheduleQueues(MAIN_LOOP)
               THEN [rounds EXCEPT
                       ![FreeSlot] = NewRound(Msg("reset_ack", FreeSlot,
                                                  NoSnap, None), Resetter)]
               ELSE rounds
  /\ raised' = IF ScheduleRaises(MAIN_LOOP)
               THEN raised \cup {Resetter} ELSE raised
  /\ stale' = IF stale.snap /\ ScheduleQueues(MAIN_LOOP)
              THEN [stale EXCEPT !.acks = @ \cup {FreeSlot}] ELSE stale
  /\ Goto(Resetter, "idle")
  /\ UNCHANGED <<lockv, readerv, failed, cfgv, lock, agg, ts, reg, rnow, loc, ret, held, committed,
                 hist, MAIN_LOOP, clients, wpc, alive, inbox, first>>

\* ------------------------------------------------------ WSManager.broadcast
\* a submitted broadcast() starts to run: the copy of the registry
RoundStart(r) ==
  /\ MAIN_LOOP = Running
  /\ ~LoopBusy
  /\ rounds[r].phase = "queued"
  /\ rounds' = [rounds EXCEPT ![r] = BeginRound(@)]
  /\ UNCHANGED <<lockv, stale, readerv, failed, cfgv, lock, agg, pc, ts, reg, rnow, loc, ret, held,
                 committed, hist, MAIN_LOOP, clients, wpc, alive, inbox,
                 first, raised>>

\* "await ws.send_json(msg)" returns or raises for the next websocket of
\* the copy; after the last one, the pruning
RoundSend(r, ws) ==
  /\ MAIN_LOOP = Running
  /\ ~LoopBusy
  /\ rounds[r].phase = "sending"
  /\ ws \in rounds[r].todo
  /\ LET ok == Deliverable(ws)
         rest == IF ok THEN rounds[r].todo \ {ws}
                 ELSE RestAfterFailure(rounds[r].todo \ {ws})
         dead == IF ok THEN rounds[r].dead ELSE rounds[r].dead \cup {ws}
     IN  /\ inbox' = IF ok THEN [inbox EXCEPT ![ws][r] = @ + 1] ELSE inbox
         /\ rounds' = [rounds EXCEPT
                         ![r].todo = rest, ![r].dead = dead,
                         ![r].phase = IF rest = {} THEN "done" ELSE @]
         /\ clients' = IF rest = {} THEN Pruned(clients, dead) ELSE clients
         /\ failed' = IF rest = {} THEN failed \cup dead ELSE failed
         /\ stale' = IF ok /\ r \in stale.acks
                     THEN [stale EXCEPT !.seen = @ \cup {ws}] ELSE stale
  /\ UNCHANGED <<lockv, readerv, cfgv, lock, agg, pc, ts, reg, rnow, loc, ret, held,
                 committed, hist, MAIN_LOOP, wpc, alive, first, raised>>

\* broadcast() returns: the coroutine is gone, and with it the record of
\* what it delivered
RoundReturn(r) ==
  /\ MAIN_LOOP = Running
  /\ ~LoopBusy
  /\ rounds[r].phase = "done"
  /\ rounds' = [rounds EXCEPT ![r] = FreeRound]
  /\ inbox' = [w \in Sockets |-> [inbox[w] EXCEPT ![r] = 0]]
  /\ stale' = [stale EXCEPT !.acks = @ \ {r}]
  /\ UNCHANGED <<lockv, readerv, failed, cfgv, lock, agg, pc, ts, reg, rnow, loc, ret, held,
                 committed, hist, MAIN_LOOP, clients, wpc, alive, first,
                 raised>>

\* ------------------------------------------------------------ ws_endpoint
\* "await manager.connect(ws)": accept() returns and the websocket is
\* added; then state.snapshot() and the send begins
WsConnect(ws) ==
  /\ MAIN_LOOP = Running
  /\ ~LoopBusy
  /\ wpc[ws] = "idle"
  /\ \A w \in Earlier(ws) : wpc[w] /= "idle"
  /\ clients' = clients \cup {ws}
  /\ first' = [first EXCEPT ![ws] = InitialSnapshot]
  /\ wpc' = [wpc EXCEPT ![ws] = "sending"]
  /\ UNCHANGED <<lockv, stale, readerv, failed, cfgv, lock, agg, pc, ts, reg, rnow, loc, ret, held,
                 committed, hist, MAIN_LOOP, alive, inbox, rounds, raised>>

\* "await ws.send_json({"type": "snapshot", ...})" returns, or raises and
\* "finally: await manager.disconnect(ws)" runs
WsInitialSent(ws) ==
  /\ MAIN_LOOP = Running
  /\ ~LoopBusy
  /\ wpc[ws] = "sending"
  /\ IF alive[ws]
     THEN /\ inbox' = [w \in Sockets |->
                         IF w \in InitialRecipients(ws)
                         THEN [inbox[w] EXCEPT ![0] = @ + 1]
                         ELSE inbox[w]]
          /\ wpc' = [wpc EXCEPT ![ws] = "open"]
          /\ UNCHANGED <<failed, clients, raised>>
     ELSE /\ clients' = Discard(clients, ws)
          /\ raised' = IF DiscardRaises(clients, ws)
                       THEN raised \cup {"disconnect"} ELSE raised
          /\ wpc' = [wpc EXCEPT ![ws] = "closed"]
          /\ UNCHANGED inbox
  /\ first' = [first EXCEPT ![ws] = NoSnap]
  /\ UNCHANGED <<lockv, stale, readerv, failed, cfgv, lock, agg, pc, ts, reg, rnow, loc, ret, held,
                 committed, hist, MAIN_LOOP, alive, rounds>>

\* the handler is cancelled in its sleep:
\* "finally: await manager.disconnect(ws)"; the connection is over
WsCancel(ws) ==
  /\ MAIN_LOOP = Running
  /\ ~LoopBusy
  /\ wpc[ws] = "open"
  /\ clients' = Discard(clients, ws)
  /\ raised' = IF DiscardRaises(clients, ws)
               THEN raised \cup {"disconnect"} ELSE raised
  /\ wpc' = [wpc EXCEPT ![ws] = "closed"]
  /\ alive' = [alive EXCEPT ![ws] = FALSE]
  /\ UNCHANGED <<lockv, stale, readerv, failed, cfgv, lock, agg, pc, ts, reg, rnow, loc, ret, held,
                 committed, hist, MAIN_LOOP, inbox, first, rounds>>

\* manager.disconnect(ws) for a websocket no handler is serving: one never
\* connected, or one whose handler has disconnected it already
Disconnect(ws) ==
  /\ MAIN_LOOP = Running
  /\ ~LoopBusy
  /\ wpc[ws] \in {"idle", "closed"}
  /\ clients' = Discard(clients, ws)
  /\ raised' = IF DiscardRaises(clients, ws)
               THEN raised \cup {"disconnect"} ELSE raised
  /\ UNCHANGED <<lockv, stale, readerv, failed, cfgv, lock, agg, pc, ts, reg, rnow, loc, ret, held,
                 committed, hist, MAIN_LOOP, wpc, alive, inbox, first,
                 rounds>>

\* the peer of a connected websocket goes away
PeerGone(ws) ==
  /\ alive[ws]
  /\ wpc[ws] \in {"sending", "open"}
  /\ alive' = [alive EXCEPT ![ws] = FALSE]
  /\ UNCHANGED <<lockv, stale, readerv, failed, cfgv, lock, agg, pc, ts, reg, rnow, loc, ret, held,
                 committed, hist, MAIN_LOOP, clients, wpc, inbox, first,
                 rounds, raised>>

\* The hub starts from the constructed program, the buffers at one capacity
\* and the clock at one reading.
HubInit == Init /\ max_deltas = MaxCap /\ t0 = HubNow

\* what the program does while the loop runs
HubRun ==
  \/ OnStartup
  \/ HubPulseFold(HubProducer) \/ HubPulseSchedule(HubProducer)
  \/ HubResetClear \/ HubResetSchedule
  \/ \E r \in Slots : RoundStart(r)
  \/ \E r \in Slots : \E ws \in Sockets : RoundSend(r, ws)
  \/ \E r \in Slots : RoundReturn(r)
  \/ \E ws \in Sockets : WsConnect(ws)
  \/ \E ws \in Sockets : WsInitialSent(ws)
  \/ \E ws \in Sockets : WsCancel(ws)
  \/ \E ws \in Sockets : Disconnect(ws)
  \/ \E ws \in Sockets : PeerGone(ws)

HubNext == HubRun \/ LoopClose

SpecHub == HubInit /\ [][HubNext]_vars

\* ====================================================================
\* The Ticker: second_loop
\* ====================================================================
\* second_loop: asyncio.sleep(1.0) returns; state.tick_second()
TickerTick ==
  /\ MAIN_LOOP = Running
  /\ pc[Ticker] = "idle"
  /\ HubTickSecond
  /\ Goto(Ticker, "h_ticked")
  /\ UNCHANGED <<lockv, stale, readerv, cfgv, lock, ts, reg, rnow, loc, ret,
                 held, committed, hist, hubv>>

\* second_loop: state.snapshot(), and "await manager.broadcast(...)" up to
\* its first send: the copy of the registry
TickerBroadcast ==
  /\ MAIN_LOOP = Running
  /\ pc[Ticker] = "h_ticked"
  /\ rounds' = [rounds EXCEPT
                  ![TickSlot] = BeginRound(NewRound(Msg("snapshot", TickSlot,
                                                        HubSnapshot, None),
                                                    Ticker))]
  /\ stale' = NoStale
  /\ Goto(Ticker, "h_round")
  /\ UNCHANGED <<lockv, readerv, cfgv, lock, agg, ts, reg, rnow, loc, ret,
                 held, committed, hist, MAIN_LOOP, clients, wpc, alive,
                 inbox, first, raised, failed>>

\* second_loop: its broadcast() has returned; asyncio.sleep(1.0) begins
TickerSleep ==
  /\ MAIN_LOOP = Running
  /\ pc[Ticker] = "h_round"
  /\ rounds[TickSlot].phase = "done"
  /\ rounds' = [rounds EXCEPT ![TickSlot] = FreeRound]
  /\ inbox' = [w \in Sockets |-> [inbox[w] EXCEPT ![TickSlot] = 0]]
  /\ stale' = NoStale
  /\ Goto(Ticker, "idle")
  /\ UNCHANGED <<lockv, readerv, cfgv, lock, agg, ts, reg, rnow, loc, ret,
                 held, committed, hist, MAIN_LOOP, clients, wpc, alive,
                 first, raised, failed>>

TickerStep ==
  \/ TickerTick \/ TickerBroadcast \/ TickerSleep
  \/ \E ws \in Sockets : RoundSend(TickSlot, ws)

\* The Ticker's specifications keep one closed bin.
TickInit == Init /\ max_deltas = 1 /\ t0 = HubNow

\* The Ticker, the subscribers and api_reset.
TickNext ==
  \/ OnStartup
  \/ HubResetClear \/ HubResetSchedule
  \/ \E r \in Slots : RoundStart(r)
  \/ \E r \in Slots : \E ws \in Sockets : RoundSend(r, ws)
  \/ \E r \in Slots : RoundReturn(r)
  \/ \E ws \in Sockets : WsConnect(ws)
  \/ \E ws \in Sockets : WsInitialSent(ws)
  \/ TickerStep

SpecTick == TickInit /\ [][TickNext]_vars

\* The Ticker and subscribers whose peers come and go.
TickFailNext ==
  \/ OnStartup
  \/ \E ws \in Sockets : WsConnect(ws)
  \/ \E ws \in Sockets : WsInitialSent(ws)
  \/ \E ws \in Sockets : PeerGone(ws)
  \/ TickerStep

\* second_loop is a task of the running loop, and every send it awaits
\* returns or raises.
TickFair == WF_vars(TickerStep)

SpecTickFair == TickInit /\ [][TickFailNext]_vars /\ TickFair

\* One new subscriber among the Ticker's broadcasts, the pulse notifications
\* and the reset acknowledgements.
NewSubscriber == SocketOrder[1]

SubscribeNext ==
  \/ OnStartup
  \/ HubPulseFold(HubProducer) \/ HubPulseSchedule(HubProducer)
  \/ HubResetClear \/ HubResetSchedule
  \/ \E r \in Slots : RoundStart(r)
  \/ \E r \in Slots : RoundSend(r, NewSubscriber)
  \/ \E r \in Slots : RoundReturn(r)
  \/ WsConnect(NewSubscriber) \/ WsInitialSent(NewSubscriber)
  \/ TickerTick \/ TickerBroadcast \/ TickerSleep
  \/ RoundSend(TickSlot, NewSubscriber)

SpecSubscribe == TickInit /\ [][SubscribeNext]_vars

\* ====================================================================
\* The two locks: GeigerState.lock and WSManager.lock
\* ====================================================================
\* Every function that takes a lock, as the sequence of its lock operations
\* and of its awaits.  agg_* is "with self.lock:" of GeigerState, reg_* is
\* "async with self.lock:" of WSManager, submit is schedule_broadcast; a
\* sleep, an accept and a send are awaits that suspend the coroutine.  A
\* broadcast is taken with one send and with its pruning.
\* (mutant) a broadcast that sends inside "async with self.lock:"
BroadcastCodeSendLocked ==
  <<"reg_acquire", "send", "reg_release", "reg_acquire", "reg_release">>
BroadcastCode ==
  <<"reg_acquire", "reg_release", "send", "reg_acquire", "reg_release">>

Code(x) ==
  CASE x = "on_pulse"     -> <<"agg_acquire", "agg_release", "submit">>
    [] x = "api_reset"    -> <<"agg_acquire", "agg_release", "submit">>
    [] x = "api_snapshot" -> <<"agg_acquire", "agg_release">>
    [] x = "second_loop"  -> <<"sleep", "agg_acquire", "agg_release",
                               "agg_acquire", "agg_release">>
                             \o BroadcastCode
    [] x = "ws_endpoint"  -> <<"accept", "reg_acquire", "reg_release",
                               "agg_acquire", "agg_release", "send", "sleep",
                               "reg_acquire", "reg_release">>
    [] x = "broadcast"    -> BroadcastCode

Submitters == {"on_pulse", "api_reset"}
Forever == {"second_loop"}              \* "while True:" around the code
Awaits == {"sleep", "accept", "send"}

Active(x) == lk[x].at >= 1
Op(x) == IF Active(x) THEN Code(x)[lk[x].at] ELSE "none"

\* x is executing: a thread always is, a coroutine when the loop runs it
CanRun(x) ==
  Active(x) /\ ~lk[x].awaiting /\ (x \in Coroutines => cur = x)

\* after the operation x is at: the next one, the first one again, or done
After(x) ==
  IF lk[x].at < Len(Code(x)) THEN [at |-> lk[x].at + 1, awaiting |-> FALSE]
  ELSE IF x \in Forever THEN [at |-> 1, awaiting |-> FALSE]
  ELSE NotRunning

\* the loop after a step of x: a coroutine that is done has left it
CurAfter(x) ==
  IF x \in Coroutines /\ After(x) = NotRunning THEN NoCoroutine ELSE cur

LockRest == <<readerv, hubv, stale, cfgv, agg, pc, ts, reg, rnow, loc, ret,
              held, committed, hist>>

\* a pulse, a request or a connection arrives; on_startup creates
\* second_loop.  A caller of schedule_broadcast comes when no broadcast is
\* pending.
LkCall(x) ==
  /\ x /= "broadcast"
  /\ ~Active(x)
  /\ x \in Submitters =>
        /\ ~Active("broadcast")
        /\ \A y \in Submitters : ~Active(y)
  /\ lk' = [lk EXCEPT ![x] = [at |-> 1, awaiting |-> FALSE]]
  /\ UNCHANGED <<lock, rlock, cur, LockRest>>

\* the idle event loop runs a coroutine that is ready; one that waits for
\* the asyncio.Lock is ready when the lock is free
LkDispatch(x) ==
  /\ x \in Coroutines
  /\ cur = NoCoroutine
  /\ Active(x) /\ ~lk[x].awaiting
  /\ Op(x) = "reg_acquire" => rlock = Free
  /\ cur' = x
  /\ UNCHANGED <<lock, rlock, lk, LockRest>>

\* "with self.lock:" of GeigerState: blocks the thread, and the whole event
\* loop if a coroutine calls it
LkAggAcquire(x) ==
  /\ CanRun(x) /\ Op(x) = "agg_acquire"
  /\ lock = Free
  /\ lock' = x
  /\ lk' = [lk EXCEPT ![x] = After(x)]
  /\ UNCHANGED <<rlock, cur, LockRest>>

LkAggRelease(x) ==
  /\ CanRun(x) /\ Op(x) = "agg_release"
  /\ lock' = Free
  /\ lk' = [lk EXCEPT ![x] = After(x)]
  /\ cur' = CurAfter(x)
  /\ UNCHANGED <<rlock, LockRest>>

\* "async with self.lock:" of WSManager: taken at once if free, else the
\* coroutine is suspended until it is
LkRegAcquire(x) ==
  /\ CanRun(x) /\ Op(x) = "reg_acquire"
  /\ IF rlock = Free
     THEN /\ rlock' = x
          /\ lk' = [lk EXCEPT ![x] = After(x)]
          /\ UNCHANGED cur
     ELSE /\ cur' = NoCoroutine
          /\ UNCHANGED <<rlock, lk>>
  /\ UNCHANGED <<lock, LockRest>>

LkRegRelease(x) ==
  /\ CanRun(x) /\ Op(x) = "reg_release"
  /\ rlock' = Free
  /\ lk' = [lk EXCEPT ![x] = After(x)]
  /\ cur' = CurAfter(x)
  /\ UNCHANGED <<lock, LockRest>>

\* an await that suspends: the loop is free for another coroutine
LkAwait(x) ==
  /\ CanRun(x) /\ Op(x) \in Awaits
  /\ lk' = [lk EXCEPT ![x].awaiting = TRUE]
  /\ cur' = NoCoroutine
  /\ UNCHANGED <<lock, rlock, LockRest>>

\* what was awaited is there: the sleep is over, the handshake or the send
\* is done (or has raised); ws_endpoint's last sleep ends by cancellation
LkResume(x) ==
  /\ Active(x) /\ lk[x].awaiting
  /\ lk' = [lk EXCEPT ![x] = After(x)]
  /\ UNCHANGED <<lock, rlock, cur, LockRest>>

\* schedule_broadcast: run_coroutine_threadsafe(manager.broadcast(msg), ...)
LkSubmit(x) ==
  /\ CanRun(x) /\ Op(x) = "submit"
  /\ lk' = [lk EXCEPT ![x] = After(x),
                      !["broadcast"] = [at |-> 1, awaiting |-> FALSE]]
  /\ UNCHANGED <<lock, rlock, cur, LockRest>>

LocksNext ==
  \E x \in Participants :
     \/ LkCall(x) \/ LkDispatch(x)
     \/ LkAggAcquire(x) \/ LkRegAcquire(x)
     \/ LkAggRelease(x) \/ LkRegRelease(x)
     \/ LkAwait(x) \/ LkSubmit(x) \/ LkResume(x)

\* what a participant does by itself once it is called: every step but the
\* return of a send or of a handshake
LkStep(x) ==
  \/ LkDispatch(x) \/ LkAggAcquire(x) \/ LkRegAcquire(x)
  \/ LkAggRelease(x) \/ LkRegRelease(x) \/ LkAwait(x) \/ LkSubmit(x)
  \/ (LkResume(x) /\ Op(x) = "sleep")

\* Threads and the event loop run: a lock that is free again and again is
\* taken by who waits for it, the loop's ready queue is first in, first
\* out, and a sleep ends.  A send or a handshake may never return.
LocksFair == \A x \in Participants : SF_vars(LkStep(x))

SpecLocks == TickInit /\ [][LocksNext]_vars /\ LocksFair

\* ====================================================================
\* The pulse source: GeigerReader and app.py's start_geiger_reader
\* ====================================================================
\* _emit() -> on_pulse(ts): state.on_pulse(ts), schedule_broadcast(pulse)
EmitPulse ==
  /\ HubOnPulse(HubNow)
  /\ rounds' = IF ScheduleQueues(MAIN_LOOP)
               THEN [rounds EXCEPT
                       ![FreeSlot] = NewRound(Msg("pulse", FreeSlot, NoSnap,
                                                  HubNow), "source")]
               ELSE rounds

\* room for one more pulse and its broadcast
RoomToEmit == total < MaxPulses /\ Reserved < MaxRounds

\* app.py on_startup: MAIN_LOOP, then start_geiger_reader(): the mock
\* thread if MOCK; else the GPIO device, and the mock thread if that raises
AppStartup ==
  /\ variant = "app"
  /\ MAIN_LOOP = NoLoop
  /\ MAIN_LOOP' = Running
  /\ started' = TRUE
  /\ IF mock
     THEN mpc' = "head" /\ UNCHANGED <<detect, hw>>
     ELSE \E acquired \in BOOLEAN :
            /\ detect' = acquired
            /\ hw' = IF acquired THEN "acquired" ELSE "failed"
            /\ mpc' = IF acquired THEN mpc ELSE "head"
  /\ UNCHANGED <<lockv, stale, cfgv, lock, agg, pc, ts, reg, rnow, loc, ret, held,
                 committed, hist, clients, wpc, alive, inbox, first, rounds,
                 raised, failed, variant, mock, stop_set, rpc, released>>

\* the registered edge callback: lambda ch: self._emit()
Edge ==
  /\ detect
  /\ RoomToEmit
  /\ EmitPulse
  /\ UNCHANGED <<lockv, stale, cfgv, lock, pc, ts, reg, rnow, loc, ret, held, committed,
                 hist, MAIN_LOOP, clients, wpc, alive, inbox, first, raised,
                 failed, readerv>>

\* run(): "while not self._stop.is_set():" is true (app.py: "while True")
\* and time.sleep(dt) begins
MockSleep ==
  /\ mpc = "head"
  /\ variant = "main" => ~stop_set
  /\ RoomToEmit
  /\ mpc' = "sleep"
  /\ UNCHANGED <<lockv, stale, cfgv, lock, agg, pc, ts, reg, rnow, loc, ret, held,
                 committed, hist, hubv, variant, mock, started, stop_set,
                 detect, hw, rpc, released>>

\* run(): time.sleep(dt) returns; self._emit()
MockEmit ==
  /\ mpc = "sleep"
  /\ EmitPulse
  /\ mpc' = "head"
  /\ UNCHANGED <<lockv, stale, cfgv, lock, pc, ts, reg, rnow, loc, ret, held, committed,
                 hist, MAIN_LOOP, clients, wpc, alive, inbox, first, raised,
                 failed, variant, mock, started, stop_set, detect, hw, rpc,
                 released>>

\* run(): "while not self._stop.is_set():" is false; the thread ends
MockExit ==
  /\ mpc = "head"
  /\ variant = "main"
  /\ stop_set
  /\ mpc' = "exited"
  /\ UNCHANGED <<lockv, stale, cfgv, lock, agg, pc, ts, reg, rnow, loc, ret, held,
                 committed, hist, hubv, variant, mock, started, stop_set,
                 detect, hw, rpc, released>>

\* "try: GPIO.remove_event_detect / GPIO.cleanup; except Exception: pass"
ReleaseRaises(ok) == FALSE

\* stop(): self._stop.set()
StopSet ==
  /\ variant = "main"
  /\ rpc = "idle"
  /\ stop_set' = TRUE
  /\ released' = FALSE
  /\ rpc' = "s_remove"
  /\ UNCHANGED <<lockv, stale, cfgv, lock, agg, pc, ts, reg, rnow, loc, ret, held,
                 committed, hist, hubv, variant, mock, started, mpc, detect,
                 hw>>

\* stop(): GPIO.remove_event_detect(pin) returns, or raises and changes
\* nothing
StopRemove ==
  /\ rpc = "s_remove"
  /\ \E ok \in BOOLEAN :
       /\ detect' = IF ok THEN FALSE ELSE detect
       /\ released' = (released \/ ok)
       /\ raised' = IF ReleaseRaises(ok) THEN raised \cup {"stop"} ELSE raised
  /\ rpc' = "s_cleanup"
  /\ UNCHANGED <<lockv, stale, cfgv, lock, agg, pc, ts, reg, rnow, loc, ret, held,
                 committed, hist, MAIN_LOOP, clients, wpc, alive, inbox,
                 first, rounds, failed, variant, mock, started, stop_set,
                 mpc, hw>>

\* stop(): GPIO.cleanup() returns, or raises and changes nothing
StopCleanup ==
  /\ rpc = "s_cleanup"
  /\ \E ok \in BOOLEAN :
       /\ detect' = IF ok THEN FALSE ELSE detect
       /\ released' = (released \/ ok)
       /\ raised' = IF ReleaseRaises(ok) THEN raised \cup {"stop"} ELSE raised
  /\ rpc' = "s_done"
  /\ UNCHANGED <<lockv, stale, cfgv, lock, agg, pc, ts, reg, rnow, loc, ret, held,
                 committed, hist, MAIN_LOOP, clients, wpc, alive, inbox,
                 first, rounds, failed, variant, mock, started, stop_set,
                 mpc, hw>>

\* stop() returns
StopReturn ==
  /\ rpc = "s_done"
  /\ rpc' = "idle"
  /\ UNCHANGED <<lockv, stale, cfgv, lock, agg, pc, ts, reg, rnow, loc, ret, held,
                 committed, hist, hubv, variant, mock, started, stop_set,
                 mpc, detect, hw, released>>

\* Either program, with either source.
ReaderInit ==
  /\ Constructed
  /\ variant \in Variants
  /\ mock \in BOOLEAN
  /\ max_deltas = MaxCap
  /\ t0 = HubNow

ReaderNext ==
  \/ OnStartup \/ AppStartup
  \/ Edge \/ MockSleep \/ MockEmit \/ MockExit
  \/ StopSet \/ StopRemove \/ StopCleanup \/ StopReturn
  \/ \E r \in Slots : RoundStart(r)
  \/ \E r \in Slots : RoundReturn(r)

SpecReader == ReaderInit /\ [][ReaderNext]_vars

\* The mock thread runs, and so do the broadcasts it submits.
ReaderFair ==
  /\ WF_vars(MockSleep) /\ WF_vars(MockEmit) /\ WF_vars(MockExit)
  /\ \A r \in Slots : WF_vars(RoundStart(r)) /\ WF_vars(RoundReturn(r))

SpecReaderFair == SpecReader /\ ReaderFair

\* ====================================================================
\* Properties
\* ====================================================================
RECURSIVE SumSeq(_)
SumSeq(s) == IF s = <<>> THEN 0 ELSE Head(s) + SumSeq(Tail(s))

Last(s) == s[Len(s)]
Front(s) == SubSeq(s, 1, Len(s) - 1)
IsSuffix(s, w) == Len(s) <= Len(w) /\ s = SubSeq(w, Len(w) - Len(s) + 1, Len(w))
Quiescent == lock = Free
InCritical == {t \in Threads : pc[t] /= "idle"}

\* C1: between operations, len(deltas) <= max_deltas and
\* len(per_second) <= max_series, for every capacity >= 0.
C1_BuffersBounded ==
  Quiescent => Len(deltas) <= max_deltas /\ Len(per_second) <= max_series

\* C2: every pulse is counted in exactly one bin.  While no closed bin has
\* been evicted, total = sum(per_second) + open-bin counter between
\* operations; tick_second appends the number of on_pulse calls completed
\* since the previous tick_second (or reset) and leaves the counter at 0;
\* pulse, tick, pulse, tick, pulse gives per_second = [1, 1] and total = 3.
C2_EveryPulseInOneBin ==
  /\ (Quiescent /\ ~hist.evicted) =>
        total = SumSeq(per_second) + current_second_count
  /\ pc[Ticker] = "t_rel" =>
        /\ per_second /= <<>>
        /\ Last(per_second) = hist.sinceTick
        /\ current_second_count = 0
  /\ (Quiescent /\ hist.scen = 5 /\ ~hist.evicted) =>
        per_second = <<1, 1>> /\ total = 3

\* C2 witness: the scenario has run with room for both bins.
C2_Witness ==
  Quiescent /\ hist.scen = 5 /\ ~hist.evicted /\ max_series = 2

\* C3: after N >= 1 pulses with non-decreasing timestamps since the last
\* reset, total = N and len(deltas) = min(N - 1, max_deltas).
C3_CountAndDeltas ==
  (Quiescent /\ hist.mono /\ hist.done >= 1) =>
     total = hist.done /\ Len(deltas) = Min(hist.done - 1, max_deltas)

\* C4: the lock gives mutual exclusion over the aggregator's methods, and
\* between operations total is the number of on_pulse calls completed since
\* the last completed reset.
C4_MutualExclusion ==
  /\ Cardinality(InCritical) <= 1
  /\ \A t \in InCritical : lock = t
  /\ Quiescent => total = hist.done

\* C4 witness: p2 is about to complete a pulse after p1 completed one.
C4_Witness ==
  pc["p2"] = "p_rel" /\ hist.lastBy = "p1" /\ hist.done >= 1 /\ total = 2

\* C5: reset is atomic for the other operations.  Every operation starts
\* from the fields as the last completed operation left them (the complete
\* pre-reset or the complete post-reset state), and the dict snapshot()
\* builds holds exactly those fields.
C5_ResetAtomic ==
  [][ /\ \A t \in Threads :
            (pc[t] = "idle" /\ pc'[t] /= "idle") => Fields = committed
      /\ (pc[Snapshotter] = "s_ret" /\ pc'[Snapshotter] = "s_rel") =>
            /\ ret'.total = committed.total
            /\ ret'.deltas.val = committed.deltas
            /\ ret'.per_second.val = committed.per_second ]_vars

\* C5 witness: a snapshot built right after a reset that cleared pulses,
\* deltas and bins holds the cleared state.
C5_Witness ==
  /\ pc[Snapshotter] = "s_rel"
  /\ hist.resets = 1
  /\ ret.total = 0 /\ ret.deltas.val = <<>> /\ ret.per_second.val = <<>>

\* C6: when reset() is done, total = 0, last_ts is None, deltas and
\* per_second are empty, the open-bin counter is 0 and t0 is the clock
\* reading; a reset right after a reset gives the same fields up to t0.
C6_ResetClears ==
  pc[Resetter] = "r_rel" =>
     /\ Fields = ClearedFields(rnow)
     /\ hist.resets >= 1 =>
           [Fields EXCEPT !.t0 = 0] = [committed EXCEPT !.t0 = 0]

\* C6 witness: the second of two consecutive resets, at another clock
\* reading than the first.
C6_Witness ==
  pc[Resetter] = "r_rel" /\ hist.resets >= 1 /\ t0 /= committed.t0

\* C7: a pulse with ts < last_ts increments total and the open-bin counter,
\* overwrites last_ts and leaves deltas as they were; a pulse with
\* ts >= last_ts does the same and appends ts - last_ts to deltas.
C7_OutOfOrderPulse ==
  \A p \in Producers :
    pc[p] = "p_rel" =>
      /\ total = committed.total + 1
      /\ current_second_count = committed.current_second_count + 1
      /\ last_ts = ts[p]
      /\ (committed.last_ts /= None /\ ts[p] < committed.last_ts) =>
            deltas = committed.deltas
      /\ (committed.last_ts /= None /\ ts[p] >= committed.last_ts) =>
            /\ deltas /= <<>>
            /\ Last(deltas) = ts[p] - committed.last_ts
            /\ IsSuffix(Front(deltas), committed.deltas)

\* C7 witness: a pulse earlier than the last one, with deltas recorded.
C7_Witness ==
  /\ pc["p1"] = "p_rel"
  /\ committed.last_ts /= None /\ ts["p1"] < committed.last_ts
  /\ committed.deltas /= <<>>

\* C8: in every snapshot, last_age is absent iff no pulse was received
\* since the last reset, and is now - last_ts otherwise (timestamp 0
\* included).
C8_LastAge ==
  pc[Snapshotter] = "s_rel" =>
     /\ ret.last_age.isNone <=> hist.done = 0
     /\ hist.done >= 1 => ret.last_age = Some(loc.now - last_ts)

\* C9: snapshot() leaves every field as it was, and the lists of a dict it
\* returned keep the items they were returned with, whatever on_pulse,
\* tick_second and reset do later.
C9_SnapshotPure ==
  /\ [][pc'[Snapshotter] /= pc[Snapshotter] => UNCHANGED agg]_vars
  /\ [](~held.changed)

\* C9 witness: a dict is held while on_pulse has just appended a delta in
\* place to self.deltas.
C9_Witness ==
  held.valid /\ pc["p1"] = "p_last" /\ Len(deltas) > Len(committed.deltas)

FracEq(x, y) == x[2] > 0 /\ y[2] > 0 /\ x[1] * y[2] = y[1] * x[2]
RootEq(x, y) ==
  x[2] > 0 /\ y[2] > 0 /\ x[1] * y[2] * y[2] = y[1] * x[2] * x[2]

\* C11 as stated: elapsed = max(0, now - t0), rate = total / elapsed if
\* elapsed > 0 else 0, rate_err = sqrt(total) / elapsed if total > 0 else 0.
C11_RatesAsStated ==
  pc[Snapshotter] = "s_rel" =>
     /\ ret.elapsed = Max(0, loc.now - t0)
     /\ FracEq(ret.rate_bq, IF ret.elapsed > 0
                            THEN <<ret.total, ret.elapsed>> ELSE <<0, 1>>)
     /\ RootEq(ret.rate_err, IF ret.total > 0
                             THEN <<ret.total, ret.elapsed>> ELSE <<0, 1>>)

\* C11 amended: elapsed is now - t0 when the clock reads t0 or later and 0
\* when it reads earlier (never negative); rate = total / elapsed if
\* elapsed > 0 else 0; rate_err = sqrt(total) / elapsed if total > 0 and
\* elapsed > 0, else 0; total = 100 and elapsed = 10 give rate 10 and
\* rate_err 1.
C11_Rates ==
  /\ pc[Snapshotter] = "s_rel" =>
        /\ ret.elapsed >= 0
        /\ loc.now >= t0 => ret.elapsed = loc.now - t0
        /\ loc.now < t0 => ret.elapsed = 0
        /\ FracEq(ret.rate_bq, IF ret.elapsed > 0
                               THEN <<ret.total, ret.elapsed>> ELSE <<0, 1>>)
        /\ RootEq(ret.rate_err, IF ret.total > 0 /\ ret.elapsed > 0
                                THEN <<ret.total, ret.elapsed>>
                                ELSE <<0, 1>>)
  /\ FracEq(Rate(100, Elapsed(10, 0)), <<10, 1>>)
  /\ RootEq(RateErr(100, Elapsed(10, 0)), <<1, 1>>)

\* C11 witness: a snapshot with pulses counted, the clock reading earlier
\* than t0.
C11_Witness ==
  pc[Snapshotter] = "s_rel" /\ loc.now < t0 /\ ret.total > 0

\* The last n entries of s, oldest first.
LastN(s, n) == SubSeq(s, Len(s) - n + 1, Len(s))

\* C20: eviction is first-in-first-out.  Between operations, after k accepted
\* deltas since the last reset deltas is the most recent min(k, max_deltas)
\* of them in arrival order, and after m closed bins per_second is the most
\* recent min(m, max_series) of them in order.
C20_Fifo ==
  Quiescent =>
     /\ deltas = LastN(hist.accepted, Min(Len(hist.accepted), max_deltas))
     /\ per_second = LastN(hist.closed, Min(Len(hist.closed), max_series))

\* C20 with every capacity at least 1.
C20_FifoPositiveCapacity == (max_deltas >= 1 /\ max_series >= 1) => C20_Fifo

\* An entry has been dropped from each buffer.
C20_Evicted ==
  /\ Quiescent
  /\ Len(hist.accepted) > Len(deltas)
  /\ Len(hist.closed) > Len(per_second)

\* ------------------------------------------------------------ the hub
\* The websockets a broadcast owes its message: those of its copy of the
\* registry whose own delivery did not fail.
Owed(r) == rounds[r].start \ rounds[r].dead

\* C12: a delivery failure does not abort the round.  When a broadcast has
\* completed, every websocket that was in the registry when it started and
\* whose own delivery did not fail has received its message exactly once,
\* and no websocket ever receives it twice.
C12_FailureIsolated ==
  \A r \in Slots :
     /\ \A ws \in Sockets : inbox[ws][r] <= 1
     /\ rounds[r].phase = "done" =>
           /\ rounds[r].todo = {}
           /\ \A ws \in Owed(r) : inbox[ws][r] = 1

\* C12 witness: a completed broadcast with a failed delivery and a
\* websocket that received the message.
C12_Witness ==
  \E r \in Slots :
     /\ rounds[r].phase = "done"
     /\ rounds[r].dead /= {}
     /\ \E ws \in Owed(r) : inbox[ws][r] = 1

\* C13: when a broadcast completes, exactly the websockets whose delivery
\* failed in it are removed from the registry; a broadcast that starts
\* later has none of them in its copy; no step of a broadcast adds a
\* websocket to the registry.
C13_FailedArePruned ==
  /\ [][\A r \in Slots :
          /\ (rounds[r].phase = "sending" /\ rounds'[r].phase = "done") =>
                /\ clients' = clients \ rounds'[r].dead
                /\ rounds'[r].dead \subseteq failed'
          /\ (rounds[r].phase = "queued" /\ rounds'[r].phase /= "queued") =>
                rounds'[r].start \cap failed = {}
          /\ (rounds'[r] /= rounds[r]) => clients' \subseteq clients]_vars
  /\ [](failed \cap clients = {})

\* C13 witness: a broadcast has started with a non-empty copy of the
\* registry after another one pruned a websocket.
C13_Witness ==
  \E r \in Slots :
     /\ rounds[r].phase \in {"sending", "done"}
     /\ rounds[r].start /= {}
     /\ failed /= {}
     /\ rounds[r].start \cap failed = {}

\* C14: connecting adds the websocket to the registry and sends it the
\* snapshot of that moment, and no one else: the new websocket receives
\* exactly one initial snapshot and the connect delivers nothing to any
\* other websocket.
C14_ConnectSnapshot ==
  /\ [][\A ws \in Sockets :
          /\ (wpc[ws] = "idle" /\ wpc'[ws] = "sending") =>
                /\ clients' = clients \cup {ws}
                /\ first'[ws] = HubSnapshot
                /\ inbox' = inbox
          /\ (wpc[ws] = "sending" /\ wpc'[ws] = "open") =>
                /\ inbox'[ws][0] = 1
                /\ \A w \in Sockets \ {ws} : inbox'[w] = inbox[w]]_vars
  /\ [](\A ws \in Sockets :
          /\ inbox[ws][0] <= 1
          /\ wpc[ws] \in {"idle", "sending"} => inbox[ws][0] = 0
          /\ wpc[ws] = "open" => inbox[ws][0] = 1)

\* C14 witness: the second websocket has its initial snapshot while the
\* first one is in the registry.
C14_Witness ==
  /\ wpc["w2"] = "open"
  /\ "w1" \in clients
  /\ inbox["w1"][0] = 1

\* C15: disconnect is idempotent.  A websocket whose handler has
\* disconnected it, or that never connected, is not in the registry;
\* disconnect for it changes nothing; disconnect removes no other
\* websocket and never raises.
C15_DisconnectIdempotent ==
  /\ [](\A ws \in Sockets :
          wpc[ws] \in {"idle", "closed"} =>
             ws \notin clients /\ Discard(clients, ws) = clients)
  /\ []("disconnect" \notin raised)
  /\ [][\A ws \in Sockets :
          (wpc[ws] /= "closed" /\ wpc'[ws] = "closed") =>
             clients' = clients \ {ws}]_vars

\* C15 witness: a handler has disconnected a websocket that a broadcast
\* had pruned already.
C15_Witness ==
  \E ws \in Sockets : wpc[ws] = "closed" /\ ws \in failed

\* C16: on_pulse folds the pulse into the state whatever MAIN_LOOP is;
\* schedule_broadcast with MAIN_LOOP unset, or with a loop that refuses the
\* submission, enqueues nothing; no exception reaches the producer.
C16_SubmitNoLoop ==
  /\ [][(pc[HubProducer] = "idle" /\ pc'[HubProducer] = "h_sched") =>
          total' = total + 1]_vars
  /\ [][(pc[HubProducer] = "h_sched" /\ pc'[HubProducer] = "idle"
         /\ MAIN_LOOP /= Running) => rounds' = rounds]_vars
  /\ [](HubProducer \notin raised)

\* C16 witness: before startup, a pulse has been counted and on_pulse has
\* returned.
C16_Witness ==
  MAIN_LOOP = NoLoop /\ total = 1 /\ pc[HubProducer] = "idle"

\* Threads run, the event loop runs every coroutine that can go on, and
\* every send_json returns or raises.
RoundStep(r) == RoundStart(r) \/ \E ws \in Sockets : RoundSend(r, ws)
HubFair ==
  /\ WF_vars(HubResetSchedule)
  /\ \A r \in Slots : WF_vars(RoundStep(r))

\* The hub with a loop that is never closed, under fair scheduling.
SpecHubFair == HubInit /\ [][HubRun]_vars /\ HubFair

C18_FallbackToMock ==
  hw = "failed" => ("startup" \notin raised /\ mpc \in {"head", "sleep"})

\* C18 in app.py alone, whose start_geiger_reader catches the failure.
C18_FallbackInApp == variant = "app" => C18_FallbackToMock

\* C19: when stop() is about to return, whatever the releases did, no
\* exception has left it, the stop event is set and the source is stopped:
\* no edge callback is registered.
C19_StopStops ==
  rpc = "s_done" => ("stop" \notin raised /\ stop_set /\ ~detect)

\* What stop() does achieve: no exception leaves it, the stop event is set,
\* the edge callback is gone if one release worked, and the mock thread
\* that sees the event ends.
C19_StopSwallows ==
  /\ "stop" \notin raised
  /\ rpc = "s_done" => (stop_set /\ (released => ~detect))

\* Once the stop event is set, the running mock thread of main.py ends.
C19_MockLoopExits ==
  (stop_set /\ mpc \in {"head", "sleep"} /\ variant = "main")
     ~> (mpc = "exited")

\* ------------------------------------------------ aggregator invariants
\* C23: between operations, last_ts is None exactly when total = 0,
\* len(deltas) <= max(0, total - 1), every stored delta is >= 0, and the
\* open-bin counter is between 0 and total.
C23_AggregatorInvariants ==
  Quiescent =>
     /\ (last_ts = None) <=> (total = 0)
     /\ Len(deltas) <= Max(0, total - 1)
     /\ \A i \in 1..Len(deltas) : deltas[i] >= 0
     /\ 0 <= current_second_count /\ current_second_count <= total

\* C23 witness: two pulses and a tick since the last reset, one delta
\* stored and one pulse in the open bin.
C23_Witness ==
  /\ Quiescent /\ total = 2 /\ last_ts /= None
  /\ Len(deltas) = 1 /\ current_second_count = 1 /\ hist.ticks >= 1

\* ------------------------------------------------- the source after stop
\* stop() has returned at least once
StopReturned == stop_set /\ rpc = "idle"

\* C24: once stop() has returned on a running synthetic source, the source
\* calls on_pulse no more and submits no pulse notification.
C24_SilentAfterStop ==
  [][ (StopReturned /\ variant = "main" /\ mock) =>
         /\ total' <= total
         /\ \A r \in Slots :
              (rounds'[r].msg.type = "pulse" /\ rounds'[r].by = "source")
                 => rounds'[r] = rounds[r] ]_vars

\* What the mock thread does keep to: once it has seen the stop event at
\* the head of its loop it never sleeps again, so at most the one pulse it
\* was sleeping for follows stop().
C24_AtMostOneMore ==
  [][ (stop_set /\ variant = "main" /\ mpc = "head")
         => mpc' \in {"head", "exited"} ]_vars

\* ------------------------------------------------- pulse notifications
\* C22: for a pulse emitted while the loop runs, on_pulse first folds the
\* pulse into the aggregator and submits nothing, and then submits exactly
\* one pulse broadcast, with the timestamp of that pulse; no pulse broadcast
\* is submitted in any other way.
C22_FoldThenNotify ==
  [][ LET p == HubProducer IN
      /\ (pc[p] = "idle" /\ pc'[p] = "h_sched") =>
            /\ total' = total + 1
            /\ last_ts' = ts'[p]
            /\ current_second_count' = current_second_count + 1
            /\ rounds' = rounds
      /\ (pc[p] = "h_sched" /\ pc'[p] = "idle" /\ MAIN_LOOP = Running) =>
            \E r \in Slots :
               /\ rounds[r].phase = "free"
               /\ rounds'[r] = NewRound(Msg("pulse", r, NoSnap, ts[p]), p)
               /\ \A q \in Slots \ {r} : rounds'[q] = rounds[q]
               /\ agg' = agg
      /\ \A r \in Slots :
            (rounds'[r].msg.type = "pulse" /\ rounds[r].phase = "free")
               => (pc[p] = "h_sched" /\ pc'[p] = "idle") ]_vars

\* C22 witness: the pulse has been folded and its one broadcast, carrying
\* its timestamp, is submitted and has not started.
C22_Witness ==
  /\ pc[HubProducer] = "idle" /\ MAIN_LOOP = Running
  /\ total = 1 /\ last_ts = HubNow
  /\ \E r \in Slots :
       /\ rounds[r].phase = "queued" /\ rounds[r].by = HubProducer
       /\ rounds[r].msg = Msg("pulse", r, NoSnap, last_ts)

\* ------------------------------------------------------------ the Ticker
\* C25: a websocket that has received the reset_ack of a reset is not sent,
\* afterwards, a snapshot taken before that reset: when second_loop's
\* broadcast goes on to its next websocket, no websocket it has still to
\* send to has received the acknowledgement of a reset made since the
\* snapshot was taken.
C25_NoStaleSnapshot ==
  [][ \A ws \in Sockets :
        ( /\ rounds[TickSlot].phase = "sending"
          /\ rounds'[TickSlot].todo /= rounds[TickSlot].todo
          /\ ws \in rounds'[TickSlot].todo )
        => ws \notin stale.seen ]_vars

\* C26: no broadcast message is sent to a websocket before its initial
\* snapshot has been sent to it: a websocket is in the registry, or in the
\* copy a broadcast works through, only once ws_endpoint has begun (or
\* finished) sending it the snapshot, and a broadcast delivers to it only
\* then; the snapshot is the state of the aggregator at that moment.
InitialBegun(ws) == first[ws] /= NoSnap \/ inbox[ws][0] >= 1

HoldsAgg(x) == lock = x
HoldsReg(x) == rlock = x
Delivering(x) == Op(x) = "send" /\ (lk[x].awaiting \/ CanRun(x))
WaitsAgg(x) == CanRun(x) /\ Op(x) = "agg_acquire"
WaitsReg(x) == Active(x) /\ ~lk[x].awaiting /\ Op(x) = "reg_acquire"

\* C27 as stated: the two locks are never held at the same time, and no
\* delivery is under way while either lock is held.
C27_LocksNeverTogether ==
  /\ ~(lock /= Free /\ rlock /= Free)
  /\ (lock /= Free \/ rlock /= Free) =>
        \A x \in Participants : ~Delivering(x)

\* C27: no participant holds the aggregator lock and the registry lock at
\* the same time, and none delivers to a subscriber while it holds either;
\* the registry lock is never held across a suspension; and a participant
\* that waits for a lock gets it, even if a delivery never completes.
C27_NoDeadlock ==
  /\ [](\A x \in Participants :
          /\ ~(HoldsAgg(x) /\ HoldsReg(x))
          /\ Delivering(x) => (~HoldsAgg(x) /\ ~HoldsReg(x))
          /\ HoldsAgg(x) => (CanRun(x) /\ Op(x) = "agg_release")
          /\ HoldsReg(x) => (CanRun(x) /\ Op(x) = "reg_release"))
  /\ \A x \in Participants :
        /\ WaitsAgg(x) ~> HoldsAgg(x)
        /\ WaitsReg(x) ~> HoldsReg(x)

\* C27 witness: second_loop and a submitted broadcast are both inside a
\* send that has not completed, ws_endpoint holds the aggregator lock for
\* its snapshot and the api_snapshot thread waits for it.
C27_Witness ==
  /\ lk["second_loop"].awaiting /\ Op("second_loop") = "send"
  /\ lk["broadcast"].awaiting /\ Op("broadcast") = "send"
  /\ HoldsAgg("ws_endpoint")
  /\ WaitsAgg("api_snapshot")

====
